---- MODULE Spec2Model ----
(***************************************************************************)
(* Model of the USD currency conversion skill.                             *)
(*                                                                         *)
(*   - the query side: skill/scripts/convert.py (CurrencyConverter)        *)
(*   - the ingestion side: .github/workflows/scripts/fetch_all.py and the  *)
(*     three central bank sources (ECB, NBP, RBA)                          *)
(*   - the functions of the ingestion side on their own (the parsers of    *)
(*     the sources, save_rates_by_year, the merge), each applied to one    *)
(*     input: SpecFun                                                      *)
(*                                                                         *)
(* Dates.  A date string "YYYY-MM-DD" is the number YYYYMMDD (its first    *)
(* four characters are the quotient by 10000, and the order of canonical   *)
(* strings is the order of the numbers).  A datetime.date object is its    *)
(* proleptic Gregorian ordinal, as in Python (date.min has ordinal 1).     *)
(* Rates are in units of 1/10000, amounts in whole dollars.                *)
(***************************************************************************)
EXTENDS Integers, Sequences, FiniteSets, TLC

VARIABLES
    \* ---- converter (convert.py) ----
    rates_dir,        \* the rates directory: bank directory -> its CSV files
    exchange_rates,   \* self.exchange_rates: currency -> (date ordinal -> rate)
    call,             \* arguments of the last convert() call, or NoCall
    result,           \* what the last convert() call returned or raised
    \* ---- ingestion (fetch_all.py) ----
    store,            \* skill/rates/: currency -> (year -> rows of rates.csv)
    idx,              \* position of main()'s loop over SOURCES (1..3), 4 = loop left
    summary,          \* main()'s summary dict
    changes_made,     \* main()'s changes_made flag
    exit_code,        \* main()'s return value, or NotReturned
    refetch,          \* how the records fetched in the last pass relate to the stored ones
    remote_failed,    \* a remote fetch of the last pass failed
    \* ---- one function of the scripts applied to one input ----
    fn,               \* the function: "nbp", "ecb", "rba", "save", "merge" or "none"
    input,            \* what it is applied to
    output            \* what it gave, or NotApplied

vars == <<rates_dir, exchange_rates, call, result,
          store, idx, summary, changes_made, exit_code, refetch, remote_failed,
          fn, input, output>>

convVars == <<rates_dir, exchange_rates, call, result>>
ingestVars == <<store, idx, summary, changes_made, exit_code, refetch, remote_failed>>
funVars == <<fn, input, output>>

(***************************************************************************)
(* Python's calendar (datetime.date), used by strptime, timedelta          *)
(* subtraction and isoformat.                                              *)
(***************************************************************************)
IsLeap(y) == (y % 4 = 0) /\ ((y % 100 # 0) \/ (y % 400 = 0))

DaysInMonth(y, m) ==
    IF m = 2 THEN (IF IsLeap(y) THEN 29 ELSE 28)
    ELSE IF m \in {4, 6, 9, 11} THEN 30 ELSE 31

RECURSIVE DaysBeforeMonth(_, _)
DaysBeforeMonth(y, m) ==
    IF m <= 1 THEN 0 ELSE DaysBeforeMonth(y, m - 1) + DaysInMonth(y, m - 1)

DaysBeforeYear(y) ==
    (y - 1) * 365 + ((y - 1) \div 4) - ((y - 1) \div 100) + ((y - 1) \div 400)

ToOrdinal(y, m, d) == DaysBeforeYear(y) + DaysBeforeMonth(y, m) + d

\* date(y, m, d) is valid
ValidYMD(y, m, d) ==
    /\ y >= 1 /\ y <= 9999
    /\ m \in 1..12
    /\ d >= 1 /\ d <= DaysInMonth(y, m)

YearOfStr(s) == s \div 10000
MonthOfStr(s) == (s \div 100) % 100
DayOfStr(s) == s % 100

\* datetime.strptime(s, "%Y-%m-%d") does not raise ValueError
IsDateStr(s) == ValidYMD(YearOfStr(s), MonthOfStr(s), DayOfStr(s))

\* datetime.strptime(s, "%Y-%m-%d").date() of a string it accepts: the ordinal
StrpDate(s) == ToOrdinal(YearOfStr(s), MonthOfStr(s), DayOfStr(s))

\* date.isoformat(): the string of a date object
Isoformat(o) ==
    LET y == CHOOSE yy \in ((o \div 366) + 1)..((o \div 365) + 1) :
                 DaysBeforeYear(yy) < o /\ o <= DaysBeforeYear(yy + 1)
        m == CHOOSE mm \in 1..12 :
                 /\ DaysBeforeMonth(y, mm) < o - DaysBeforeYear(y)
                 /\ o - DaysBeforeYear(y) <= DaysBeforeMonth(y, mm) + DaysInMonth(y, mm)
    IN  y * 10000 + m * 100 + (o - DaysBeforeYear(y) - DaysBeforeMonth(y, m))

(***************************************************************************)
(* CSV fields.  A rate field is numeric text (Num) or other text (Text);   *)
(* float() raises ValueError on the latter.                                *)
(***************************************************************************)
Num(v) == <<"num", v>>
Text == <<"text">>

\* float(field) does not raise ValueError
IsNumeric(f) == f[1] = "num"

\* float(field) of numeric text
Float(f) == f[2]

(***************************************************************************)
(* convert.py: CurrencyConverter                                           *)
(***************************************************************************)
BANK_TO_CURRENCY == [ECB |-> "EUR", NBP |-> "PLN", RBA |-> "AUD"]

\* str.upper() on the strings the model uses
Upper(s) ==
    CASE s = "eur" -> "EUR"
      [] s = "pln" -> "PLN"
      [] s = "nbp" -> "NBP"
      [] s = "ecb" -> "ECB"
      [] OTHER -> s

\* sorted() of a set of currency codes: the codes of the model in string order
CodeOrder == <<"AUD", "ECB", "EUR", "GBP", "NBP", "PLN", "RBA">>

SortedCodes(S) == SelectSeq(CodeOrder, LAMBDA c : c \in S)

Header == <<"date", "rate", "direction">>

\* the loop body of a loader that reads the direction column and stores the
\* inverse of a rate quoted as X_TO_USD
LoadRowByDirection(rates, row) ==
    IF Len(row) >= 2
    THEN IF IsDateStr(row[1]) /\ IsNumeric(row[2])
         THEN LET rate_date == StrpDate(row[1])
                  rate == IF Len(row) >= 3
                             /\ row[3] \in {"EUR_TO_USD", "PLN_TO_USD", "AUD_TO_USD"}
                          THEN 100000000 \div Float(row[2])
                          ELSE Float(row[2])
              IN  [d \in DOMAIN rates \cup {rate_date} |->
                      IF d = rate_date THEN rate ELSE rates[d]]
         ELSE rates
    ELSE rates

\* the body of the loop over the rows of one file (lines 69-77)
LoadRow(rates, row) ==
    IF Len(row) >= 2
    THEN IF IsDateStr(row[1]) /\ IsNumeric(row[2])
         THEN LET rate_date == StrpDate(row[1])
                  rate == Float(row[2])
              IN  [d \in DOMAIN rates \cup {rate_date} |->
                      IF d = rate_date THEN rate ELSE rates[d]]
         ELSE rates
    ELSE rates

RECURSIVE LoadRows(_, _)
LoadRows(rates, rows) ==
    IF rows = <<>> THEN rates
    ELSE LoadRows(LoadRow(rates, Head(rows)), Tail(rows))

\* _load_rate_file: the first line is skipped, whatever it is; an empty file
\* makes next(reader) raise StopIteration, which the outer except swallows
LoadRateFile(rates, file) ==
    IF file = <<>> THEN rates ELSE LoadRows(rates, Tail(file))

RECURSIVE LoadFiles(_, _)
LoadFiles(rates, files) ==
    IF files = <<>> THEN rates
    ELSE LoadFiles(LoadRateFile(rates, Head(files)), Tail(files))

EmptyMap == [x \in {} |-> 0]

\* the currency a bank directory is loaded under (lines 51-53)
CurrencyOfDir(name) ==
    IF Upper(name) \in DOMAIN BANK_TO_CURRENCY
    THEN BANK_TO_CURRENCY[Upper(name)]
    ELSE Upper(name)

\* _load_all_rates that enters a currency only when a directory has files
RECURSIVE LoadAllRatesLazy(_, _, _)
LoadAllRatesLazy(er, disk, order) ==
    IF order = <<>> THEN er
    ELSE LET name == Head(order)
             currency == CurrencyOfDir(name)
             loaded == LoadFiles(EmptyMap, disk[name])
         IN  LoadAllRatesLazy(
                 IF loaded = EmptyMap THEN er
                 ELSE [c \in DOMAIN er \cup {currency} |->
                          IF c = currency THEN loaded ELSE er[c]],
                 disk, Tail(order))

\* _load_all_rates: the directories of disk in the order iterdir() yields them;
\* every directory resets its currency's ledger before its files are loaded
RECURSIVE LoadAllRates(_, _, _)
LoadAllRates(er, disk, order) ==
    IF order = <<>> THEN er
    ELSE LET name == Head(order)
             currency == CurrencyOfDir(name)
             loaded == LoadFiles(EmptyMap, disk[name])
         IN  LoadAllRates([c \in DOMAIN er \cup {currency} |->
                              IF c = currency THEN loaded ELSE er[c]],
                          disk, Tail(order))

\* what _find_rate_for_date gives: (rate, date), (None, None), or the
\* OverflowError that date - timedelta raises below date.min
Found(rate, date) == <<"found", rate, date>>
NotFound == <<"None", "None">>
Overflow == <<"OverflowError">>

\* range(1, 31): the first days_back that is not tried
LookbackEnd == 31

\* the loop of lines 126-129
RECURSIVE ScanBack(_, _, _)
ScanBack(rates, target_date, days_back) ==
    IF days_back >= LookbackEnd THEN NotFound
    ELSE IF target_date - days_back < 1 THEN Overflow
    ELSE IF (target_date - days_back) \in DOMAIN rates
         THEN Found(rates[target_date - days_back], target_date - days_back)
         ELSE ScanBack(rates, target_date, days_back + 1)

\* _find_rate_for_date with the scan tried before the exact date
ScanFirstFindRate(er, currency, target_date) ==
    IF currency \notin DOMAIN er THEN NotFound
    ELSE IF DOMAIN er[currency] = {} THEN NotFound
    ELSE LET back == ScanBack(er[currency], target_date, 1)
         IN  IF back[1] = "found" THEN back
             ELSE IF target_date \in DOMAIN er[currency]
                  THEN Found(er[currency][target_date], target_date)
                  ELSE back

\* _find_rate_for_date
FindRateForDate(er, currency, target_date) ==
    IF currency \notin DOMAIN er THEN NotFound
    ELSE IF DOMAIN er[currency] = {} THEN NotFound
    ELSE IF target_date \in DOMAIN er[currency]
         THEN Found(er[currency][target_date], target_date)
         ELSE ScanBack(er[currency], target_date, 1)

SetMin(S) == CHOOSE x \in S : \A y \in S : x <= y
SetMax(S) == CHOOSE x \in S : \A y \in S : x >= y

\* CurrencyConverter.get_available_currencies: the currencies with rates
get_available_currencies(er) ==
    [c \in {k \in DOMAIN er : DOMAIN er[k] # {}} |->
        [earliest_date |-> Isoformat(SetMin(DOMAIN er[c])),
         latest_date |-> Isoformat(SetMax(DOMAIN er[c])),
         total_days |-> Cardinality(DOMAIN er[c])]]

RECURSIVE Pow2(_)
Pow2(k) == IF k = 0 THEN 1 ELSE 2 * Pow2(k - 1)

RECURSIVE Pow2Mod(_, _)
Pow2Mod(k, n) == IF k = 0 THEN 1 % n ELSE (2 * Pow2Mod(k - 1, n)) % n

\* floor(log2(rate / 10000)) of a rate > 0
RECURSIVE Log2Up(_, _)
Log2Up(rate, t) == IF Pow2(t + 1) * 10000 <= rate THEN Log2Up(rate, t + 1) ELSE t
RECURSIVE Log2Down(_, _)
Log2Down(rate, u) == IF rate * Pow2(u) < 10000 THEN Log2Down(rate, u + 1) ELSE -u
FloorLog2(rate) == IF rate >= 10000 THEN Log2Up(rate, 0) ELSE Log2Down(rate, 0)

\* float(text) of a rate written with four decimals: the side of the decimal
\* value on which the double lies (-1 below, 0 equal, 1 above).  The double
\* is m * 2^-e with m the integer nearest to rate * 2^e / 10^4 =
\* rate * 2^(e-4) / 625, where e = 52 - floor(log2(rate / 10^4)); the
\* remainder of rate * 2^(e-4) by 625 tells which way m was rounded.
FloatSide(rate) ==
    LET k == 48 - FloorLog2(rate)
        rem == ((rate % 625) * Pow2Mod(k, 625)) % 625
    IN  IF rem = 0 THEN 0 ELSE IF 2 * rem < 625 THEN -1 ELSE 1

\* round(amount_usd * rate, 2) in cents, on doubles (rate in 1/10000): the
\* cent nearest to the double product; the decimal product lies halfway
\* between two cents only when amount * rate ends in 50, which for the
\* amounts 1 and 100 happens for amount 1 alone, where the product is the
\* double of the rate itself: round() then goes to the side the double lies
\* on, and to the even cent when the double is the decimal value exactly
Round2(amount_usd, rate) ==
    LET p == amount_usd * rate
        q == p \div 100
        r == p % 100
        side == FloatSide(rate)
    IN  IF r > 50 THEN q + 1
        ELSE IF r < 50 THEN q
        ELSE IF side > 0 \/ (side = 0 /\ q % 2 = 1) THEN q + 1 ELSE q

\* the bank code named in the no-data message (line 160)
BankCodeOf(currency) ==
    IF \E k \in DOMAIN BANK_TO_CURRENCY : BANK_TO_CURRENCY[k] = currency
    THEN CHOOSE k \in DOMAIN BANK_TO_CURRENCY : BANK_TO_CURRENCY[k] = currency
    ELSE currency

\* what convert() hands back when an exception leaves it
Raised(exc) == [raised |-> exc]

\* CurrencyConverter.convert
Convert(er, amount_usd, target_currency, conversion_date) ==
    LET currency == Upper(target_currency) IN
    IF currency \notin DOMAIN er
    THEN [status |-> "error",
          error |-> <<"not supported", target_currency, SortedCodes(DOMAIN er)>>,
          available_currencies |-> SortedCodes(DOMAIN er),
          requested_currency |-> target_currency]
    ELSE IF DOMAIN er[currency] = {}
    THEN [status |-> "error",
          error |-> <<"no rate data", currency, "rates/", BankCodeOf(currency)>>,
          currency |-> currency]
    ELSE LET found == FindRateForDate(er, currency, conversion_date)
             earliest == SetMin(DOMAIN er[currency])
             latest == SetMax(DOMAIN er[currency])
         IN  IF found = Overflow THEN Raised("OverflowError")
             ELSE IF found = NotFound
             THEN IF conversion_date < earliest
                  THEN [status |-> "error",
                        error |-> <<"no rate on", currency, Isoformat(conversion_date),
                                    "earliest", Isoformat(earliest)>>,
                        requested_date |-> Isoformat(conversion_date),
                        earliest_date |-> Isoformat(earliest),
                        currency |-> currency]
                  ELSE [status |-> "error",
                        error |-> <<"no rate on or before", currency,
                                    Isoformat(conversion_date),
                                    "latest", Isoformat(latest)>>,
                        requested_date |-> Isoformat(conversion_date),
                        latest_date |-> Isoformat(latest),
                        currency |-> currency]
             ELSE [status |-> "success",
                   amount_usd |-> amount_usd,
                   converted_amount |-> Round2(amount_usd, found[2]),
                   currency |-> currency,
                   rate |-> found[2],
                   rate_date |-> Isoformat(found[3]),
                   requested_date |-> Isoformat(conversion_date)]

(***************************************************************************)
(* The rates directory the converter is constructed on, and the call made  *)
(* to it.  The files carry the dates 0001-01-05, 0001-02-06 and 0001-02-09 *)
(* (ordinals 5, 37 and 40: 32 and 3 days apart), so the dates asked for    *)
(* cover an exact hit with and without an earlier rate in reach, every     *)
(* distance of the look-back, a gap inside the covered range, dates before *)
(* and after all data, and dates within 30 days of date.min.               *)
(***************************************************************************)
MaxQueryDate == 72

DirNames == {"ECB", "nbp", "EUR"}

\* rates.csv files: the first row is the header, the others are date, rate,
\* direction; 0001-02-30 is no date, N/A is no number, and a row of one field
\* is too short
FileUniverse ==
    { <<>>,
      <<Header, <<10105, Num(40015), "USD_TO_PLN">> >>,
      <<Header, <<10206, Num(10850), "EUR_TO_USD">>, <<10209, Num(10150), "EUR_TO_USD">> >>,
      <<Header, <<10105, Num(10850), "EUR_TO_USD">>, <<10206, Num(40015), "USD_TO_PLN">> >>,
      <<Header, <<10230, Num(40015), "USD_TO_PLN">> >>,
      <<Header, <<10105, Text, "USD_TO_PLN">>, <<10206>> >> }

\* the contents of one bank directory: its CSV files in the order the year
\* directories and glob() yield them
DirContents ==
    {<<>>} \cup {<<f>> : f \in FileUniverse}
    \cup { << <<Header, <<10105, Num(40015), "USD_TO_PLN">> >>,
              <<Header, <<10105, Num(10850), "EUR_TO_USD">>,
                        <<10206, Num(40015), "USD_TO_PLN">> >> >> }

Disks ==
    UNION { [D -> DirContents] : D \in {E \in SUBSET DirNames : Cardinality(E) <= 2} }

RECURSIVE Orders(_)
Orders(S) ==
    IF S = {} THEN {<<>>}
    ELSE UNION { {<<x>> \o q : q \in Orders(S \ {x})} : x \in S }

QueryCurrencies == {"eur", "PLN", "GBP", ""}
Amounts == {1, 100}
QueryDates == 1..MaxQueryDate

NoCall == <<>>
NoResult == [none |-> TRUE]

\* CurrencyConverter.__init__
Construct(disk, order) == LoadAllRates(EmptyMap, disk, order)

\* the call of convert() that main() makes on the converter it constructed
\* (line 308); the process then prints the result and exits
ConvertCall(amount_usd, target_currency, conversion_date) ==
    /\ call = NoCall
    /\ call' = <<amount_usd, target_currency, conversion_date>>
    /\ result' = Convert(exchange_rates, amount_usd, target_currency, conversion_date)
    /\ UNCHANGED <<rates_dir, exchange_rates>>
    /\ UNCHANGED <<ingestVars, funVars>>

DoConvert ==
    \E a \in Amounts, c \in QueryCurrencies, d \in QueryDates : ConvertCall(a, c, d)

(***************************************************************************)
(* fetch_all.py and the sources                                            *)
(***************************************************************************)
START_YEAR == 2010
\* datetime.now().year at the time of the run
CurrentYear == 2013

\* SOURCES, in the order of the dict
SourceOrder == <<"EUR", "PLN", "AUD">>
Currencies == {"EUR", "PLN", "AUD"}

bank_code == [EUR |-> "ECB", PLN |-> "NBP", AUD |-> "RBA"]

\* get_quote_direction of each source
QuoteDirection == [EUR |-> "EUR_TO_USD", PLN |-> "USD_TO_PLN", AUD |-> "AUD_TO_USD"]

\* the dates and rates the remote files of the model carry: the rate of the
\* first date is published in two versions, so that a refetch can disagree
\* with what is stored
IngestDates == {20121231, 20130102}
IngestRates == {11000, 99900}

\* what one remote file parses to: date string -> {rate, direction}
ParsedFiles(c) ==
    { r \in UNION { [D -> [rate : IngestRates, direction : {QuoteDirection[c]}]] :
                    D \in SUBSET IngestDates } :
        20130102 \in DOMAIN r => r[20130102].rate = 11000 }

\* one requests.get with its parsing: the parsed rates, or an exception
\* (timeout, HTTP error, undecodable payload)
Failed == <<"fail">>
Got(rates) == <<"ok", rates>>
Outcomes(c) == {Failed} \cup {Got(r) : r \in ParsedFiles(c)}

\* dict.update / {**a, **b}: the entries of b replace those of a
Update(a, b) ==
    [k \in DOMAIN a \cup DOMAIN b |-> IF k \in DOMAIN b THEN b[k] ELSE a[k]]

\* ECBSource.fetch_rates: one bundle; an exception is printed and raised again
ECBFetchRates(outs) == outs[1]

\* the years NBPSource.fetch_rates asks for (the start is raised to 2012)
NBPYears(start_year, end_year) ==
    (IF start_year < 2012 THEN 2012 ELSE start_year)..end_year

\* NBPSource.fetch_rates: one file per year, in year order; a failed year is
\* printed as a warning and skipped
RECURSIVE NBPAccumulate(_, _, _, _)
NBPAccumulate(all_rates, outs, year, end_year) ==
    IF year > end_year THEN all_rates
    ELSE NBPAccumulate(
             IF outs[year][1] = "fail" THEN all_rates ELSE Update(all_rates, outs[year][2]),
             outs, year + 1, end_year)

NBPFetchRates(outs, start_year, end_year) ==
    Got(NBPAccumulate(EmptyMap, outs,
                      IF start_year < 2012 THEN 2012 ELSE start_year, end_year))

\* RBASource.URL_RANGES
URL_RANGES == << <<2010, 2013>>, <<2014, 2017>>, <<2018, 2022>>, <<2023, 9999>> >>

\* the ranges RBASource.fetch_rates asks for
RBARanges(start_year, end_year) ==
    {i \in DOMAIN URL_RANGES :
        ~(URL_RANGES[i][2] < start_year \/ URL_RANGES[i][1] > end_year)}

\* RBASource.fetch_rates: one workbook per range, in list order; a failed
\* range is printed as a warning and skipped
RECURSIVE RBAAccumulate(_, _, _, _)
RBAAccumulate(all_rates, outs, i, ranges) ==
    IF i > Len(URL_RANGES) THEN all_rates
    ELSE RBAAccumulate(
             IF i \notin ranges \/ outs[i][1] = "fail" THEN all_rates
             ELSE Update(all_rates, outs[i][2]),
             outs, i + 1, ranges)

RBAFetchRates(outs, start_year, end_year) ==
    Got(RBAAccumulate(EmptyMap, outs, 1, RBARanges(start_year, end_year)))

\* the remote files one source reads in one run
Remotes(c) ==
    IF c = "EUR" THEN {1}
    ELSE IF c = "PLN" THEN NBPYears(START_YEAR, CurrentYear)
    ELSE RBARanges(START_YEAR, CurrentYear)

\* source.fetch_rates(START_YEAR, current_year)
FetchRates(c, outs) ==
    IF c = "EUR" THEN ECBFetchRates(outs)
    ELSE IF c = "PLN" THEN NBPFetchRates(outs, START_YEAR, CurrentYear)
    ELSE RBAFetchRates(outs, START_YEAR, CurrentYear)

\* date_str[:4]
YearOf(date_str) == date_str \div 10000

\* f"{rate}" of a float: the shortest text float() reads back as the same float
FormatRate(rate) == Num(rate)

\* the rows of one rates.csv read into the dict (lines 51-58)
RECURSIVE ReadRows(_, _)
ReadRows(existing, rows) ==
    IF rows = <<>> THEN existing
    ELSE LET parts == Head(rows)
         IN  ReadRows(
                 IF Len(parts) >= 3
                 THEN Update(existing,
                             [d \in {parts[1]} |->
                                 [rate |-> Float(parts[2]), direction |-> parts[3]]])
                 ELSE existing,
                 Tail(rows))

\* load_existing_rates: every year directory's rates.csv, its first line
\* skipped by next(f)
RECURSIVE LoadYears(_, _, _)
LoadYears(existing, files, years) ==
    IF years = {} THEN existing
    ELSE LET y == SetMin(years)
         IN  LoadYears(ReadRows(existing, Tail(files[y])), files, years \ {y})

load_existing_rates(files) == LoadYears(EmptyMap, files, DOMAIN files)

\* sorted(year_rates.keys()) written out as rows (lines 88-92)
RECURSIVE SortedRows(_, _)
SortedRows(rates, dates) ==
    IF dates = {} THEN <<>>
    ELSE LET d == SetMin(dates)
         IN  <<<<d, FormatRate(rates[d].rate), rates[d].direction>>>>
             \o SortedRows(rates, dates \ {d})

\* the years save_rates_by_year groups the rates into
YearsOf(rates) == {YearOf(d) : d \in DOMAIN rates}

\* save_rates_by_year with the year files opened in append mode
AppendRatesByYear(files, rates, written) ==
    [y \in DOMAIN files \cup written |->
        LET rows == SortedRows(rates, {d \in DOMAIN rates : YearOf(d) = y})
        IN  IF y \in written
            THEN IF y \in DOMAIN files THEN files[y] \o rows ELSE <<Header>> \o rows
            ELSE files[y]]

\* save_rates_by_year: the year files in written are rewritten in full (mode
\* 'w': the header line, then the rows); written is every year of rates
\* unless the writing is cut short by an exception
save_rates_by_year(files, rates, written) ==
    [y \in DOMAIN files \cup written |->
        IF y \in written
        THEN <<Header>> \o SortedRows(rates, {d \in DOMAIN rates : YearOf(d) = y})
        ELSE files[y]]

\* set(new_rates.keys()), as if the stored dates were not subtracted
AllFetchedDates(fetched, existing_rates) == DOMAIN fetched

\* new_dates (line 131)
NewDates(fetched, existing_rates) == DOMAIN fetched \ DOMAIN existing_rates

\* all_rates (line 153)
Merge(existing_rates, fetched) == Update(existing_rates, fetched)

\* what one pass of main()'s loop leaves in the currency directory (lines
\* 128-160): the year files rewritten from the merge when the fetch brought a
\* new date, the files as they were when it did not
StoredAfterPass(files, fetched) ==
    LET existing_rates == load_existing_rates(files)
        all_rates == Merge(existing_rates, fetched)
    IN  IF NewDates(fetched, existing_rates) # {}
        THEN save_rates_by_year(files, all_rates, YearsOf(all_rates))
        ELSE files

\* how the fetched records relate to the stored ones: "stored" when records
\* were fetched and each of them is stored already, "empty" when none was
\* fetched, "other" otherwise
SameRecords(fetched, existing_rates) ==
    IF fetched = EmptyMap THEN "empty"
    ELSE IF \A d \in DOMAIN fetched :
               d \in DOMAIN existing_rates /\ existing_rates[d] = fetched[d]
         THEN "stored"
         ELSE "other"

NoEntry == [none |-> TRUE]
ErrorEntry(e) == [error |-> e]
OkEntry(c, new_dates) ==
    [new |-> Cardinality(new_dates), bank |-> bank_code[c],
     direction |-> QuoteDirection[c]]

NotReturned == <<>>
Returned(code) == <<code>>

\* the inputs of one pass of main()'s loop: what each remote file of the
\* source gives
FetchInputs(c) == [Remotes(c) -> Outcomes(c)]

AnyFailed(outs) == \E r \in DOMAIN outs : outs[r][1] = "fail"

\* the except clause as a bug would have it: the run is given up
ExceptAbort(c, e) ==
    /\ summary' = [summary EXCEPT ![c] = ErrorEntry(e)]
    /\ idx' = Len(SourceOrder) + 1
    /\ UNCHANGED <<changes_made, exit_code>>

\* the except clause of main()'s loop (lines 164-167), and the loop moving on
Except(c, e) ==
    /\ summary' = [summary EXCEPT ![c] = ErrorEntry(e)]
    /\ idx' = idx + 1
    /\ UNCHANGED <<changes_made, exit_code>>

\* one pass of the loop in which source.fetch_rates raises (line 125)
FetchFails ==
    /\ idx \in DOMAIN SourceOrder
    /\ LET c == SourceOrder[idx] IN
       \E outs \in FetchInputs(c) :
          /\ FetchRates(c, outs)[1] = "fail"
          /\ refetch' = "other"
          /\ remote_failed' = TRUE
          /\ store' = store
          /\ Except(c, "fetch")

\* one pass of the loop in which load_existing_rates raises (line 128)
LoadFails ==
    /\ idx \in DOMAIN SourceOrder
    /\ LET c == SourceOrder[idx] IN
       \E outs \in FetchInputs(c) :
          /\ FetchRates(c, outs)[1] = "ok"
          /\ refetch' = "other"
          /\ remote_failed' = AnyFailed(outs)
          /\ store' = store
          /\ Except(c, "load")

\* a pass without new dates that merges and rewrites the year files all the same
NoNewRatesRewrite ==
    /\ idx \in DOMAIN SourceOrder
    /\ LET c == SourceOrder[idx] IN
       \E outs \in FetchInputs(c) :
          /\ FetchRates(c, outs)[1] = "ok"
          /\ LET fetched == FetchRates(c, outs)[2]
                 existing_rates == load_existing_rates(store[c])
                 new_dates == NewDates(fetched, existing_rates)
                 all_rates == Merge(existing_rates, fetched)
             IN  /\ new_dates = {}
                 /\ refetch' = SameRecords(fetched, existing_rates)
                 /\ summary' = [summary EXCEPT ![c] = OkEntry(c, new_dates)]
                 /\ store' = [store EXCEPT ![c] =
                                 save_rates_by_year(store[c], all_rates, YearsOf(all_rates))]
          /\ remote_failed' = AnyFailed(outs)
          /\ idx' = idx + 1
          /\ UNCHANGED <<changes_made, exit_code>>

\* one pass of the loop that finds no new date (lines 159-160)
NoNewRates ==
    /\ idx \in DOMAIN SourceOrder
    /\ LET c == SourceOrder[idx] IN
       \E outs \in FetchInputs(c) :
          /\ FetchRates(c, outs)[1] = "ok"
          /\ LET fetched == FetchRates(c, outs)[2]
                 existing_rates == load_existing_rates(store[c])
                 new_dates == NewDates(fetched, existing_rates)
             IN  /\ new_dates = {}
                 /\ refetch' = SameRecords(fetched, existing_rates)
                 /\ summary' = [summary EXCEPT ![c] = OkEntry(c, new_dates)]
          /\ remote_failed' = AnyFailed(outs)
          /\ store' = store
          /\ idx' = idx + 1
          /\ UNCHANGED <<changes_made, exit_code>>

\* one pass of the loop that merges and saves new dates (lines 141-158)
SaveNewRates ==
    /\ idx \in DOMAIN SourceOrder
    /\ LET c == SourceOrder[idx] IN
       \E outs \in FetchInputs(c) :
          /\ FetchRates(c, outs)[1] = "ok"
          /\ LET fetched == FetchRates(c, outs)[2]
                 existing_rates == load_existing_rates(store[c])
                 new_dates == NewDates(fetched, existing_rates)
                 all_rates == Merge(existing_rates, fetched)
             IN  /\ new_dates # {}
                 /\ refetch' = SameRecords(fetched, existing_rates)
                 /\ summary' = [summary EXCEPT ![c] = OkEntry(c, new_dates)]
                 /\ store' = [store EXCEPT ![c] =
                                 save_rates_by_year(store[c], all_rates, YearsOf(all_rates))]
          /\ remote_failed' = AnyFailed(outs)
          /\ changes_made' = TRUE
          /\ idx' = idx + 1
          /\ UNCHANGED exit_code

\* one pass of the loop in which save_rates_by_year raises after it has
\* rewritten some of the year files (an I/O error)
SaveFails ==
    /\ idx \in DOMAIN SourceOrder
    /\ LET c == SourceOrder[idx] IN
       \E outs \in FetchInputs(c) :
          /\ FetchRates(c, outs)[1] = "ok"
          /\ LET fetched == FetchRates(c, outs)[2]
                 existing_rates == load_existing_rates(store[c])
                 new_dates == NewDates(fetched, existing_rates)
                 all_rates == Merge(existing_rates, fetched)
             IN  /\ new_dates # {}
                 /\ refetch' = SameRecords(fetched, existing_rates)
                 /\ \E written \in SUBSET YearsOf(all_rates) :
                       /\ written # YearsOf(all_rates)
                       /\ store' = [store EXCEPT ![c] =
                                       save_rates_by_year(store[c], all_rates, written)]
          /\ remote_failed' = AnyFailed(outs)
          /\ Except(c, "save")

\* the summary is printed and main() returns 0 (lines 169-183)
Return ==
    /\ idx = Len(SourceOrder) + 1
    /\ exit_code = NotReturned
    /\ exit_code' = Returned(0)
    /\ UNCHANGED <<store, idx, summary, changes_made, refetch, remote_failed>>

\* the next scheduled run of main() starts (lines 115-116)
StartRun ==
    /\ exit_code # NotReturned
    /\ idx' = 1
    /\ summary' = [c \in Currencies |-> NoEntry]
    /\ changes_made' = FALSE
    /\ exit_code' = NotReturned
    /\ refetch' = "other"
    /\ remote_failed' = FALSE
    /\ UNCHANGED store

(***************************************************************************)
(* The two specifications: ingestion runs over the stored rates, and       *)
(* convert() calls on a constructed converter.                             *)
(***************************************************************************)
\* no function of the third specification has been applied
NotApplied == [none |-> TRUE]

\* the stored rates when the first run starts: nothing, as in a fresh checkout
\* of the scripts without data
InitStore == [c \in Currencies |-> EmptyMap]

Init ==
    /\ store = InitStore
    /\ idx = 1
    /\ summary = [c \in Currencies |-> NoEntry]
    /\ changes_made = FALSE
    /\ exit_code = NotReturned
    /\ refetch = "other"
    /\ remote_failed = FALSE
    /\ rates_dir = EmptyMap
    /\ exchange_rates = EmptyMap
    /\ call = NoCall
    /\ result = NoResult
    /\ fn = "none"
    /\ input = <<>>
    /\ output = NotApplied

Next ==
    \/ (FetchFails /\ UNCHANGED <<convVars, funVars>>)
    \/ (LoadFails /\ UNCHANGED <<convVars, funVars>>)
    \/ (NoNewRates /\ UNCHANGED <<convVars, funVars>>)
    \/ (SaveNewRates /\ UNCHANGED <<convVars, funVars>>)
    \/ (SaveFails /\ UNCHANGED <<convVars, funVars>>)
    \/ (Return /\ UNCHANGED <<convVars, funVars>>)
    \/ (StartRun /\ UNCHANGED <<convVars, funVars>>)

Spec == Init /\ [][Next]_vars

InitConvert ==
    /\ rates_dir \in Disks
    /\ \E order \in Orders(DOMAIN rates_dir) :
          exchange_rates = Construct(rates_dir, order)
    /\ call = NoCall
    /\ result = NoResult
    /\ store = InitStore
    /\ idx = 1
    /\ summary = [c \in Currencies |-> NoEntry]
    /\ changes_made = FALSE
    /\ exit_code = NotReturned
    /\ refetch = "other"
    /\ remote_failed = FALSE
    /\ fn = "none"
    /\ input = <<>>
    /\ output = NotApplied

NextConvert == DoConvert

SpecConvert == InitConvert /\ [][NextConvert]_vars

(***************************************************************************)
(* The parsers of the sources.  A remote file is Failed (the request or    *)
(* the decoding raised) or Got(content).                                   *)
(***************************************************************************)
\* an exception that leaves a parser
Raise(exc) == <<"fail", exc>>

\* NBPSource._fetch_year, the body of the loop over lines[1:] (lines 77-107):
\* a line is its fields split at ';', and a blank line is <<>>; the date text
\* YYYYMMDD is read by strptime and written back by strftime("%Y-%m-%d")
NBPParseLine(rates, parts) ==
    IF parts = <<>> THEN rates
    ELSE IF Len(parts) < 3 THEN rates
    ELSE IF ~(IsNumeric(parts[1]) /\ IsDateStr(Float(parts[1]))) THEN rates
    ELSE IF ~IsNumeric(parts[3]) THEN rates
    ELSE Update(rates,
                [d \in {Isoformat(StrpDate(Float(parts[1])))} |->
                    [rate |-> Float(parts[3]), direction |-> QuoteDirection["PLN"]]])

RECURSIVE NBPParseLines(_, _)
NBPParseLines(rates, lines) ==
    IF lines = <<>> THEN rates
    ELSE NBPParseLines(NBPParseLine(rates, Head(lines)), Tail(lines))

\* NBPSource._fetch_year: the header line is skipped
NBPFetchYear(remote) ==
    IF remote[1] = "fail" THEN Failed
    ELSE Got(NBPParseLines(EmptyMap, Tail(remote[2])))

\* a CSV field that is the empty string, and one the row is too short to have
\* (csv.DictReader fills it with None)
Empty == <<"empty">>
None == <<"None">>

\* the date texts of the bundle: a/b/y, d-Mon-y and y-m-d
Slash(a, b, y) == <<"slash", a, b, y>>
DMonY(d, m, y) == <<"mon", d, m, y>>
Iso(y, m, d) == <<"iso", y, m, d>>

NoDate == <<"none">>
DateObj(o) == <<"date", o>>

\* ECBSource._parse_date: %d/%m/%Y, %m/%d/%Y, %d-%b-%Y, %Y-%m-%d, in this
\* order; the first format that reads the text gives the date
ECBParseDate(f) ==
    IF f[1] = "slash" /\ ValidYMD(f[4], f[3], f[2]) THEN DateObj(ToOrdinal(f[4], f[3], f[2]))
    ELSE IF f[1] = "slash" /\ ValidYMD(f[4], f[2], f[3]) THEN DateObj(ToOrdinal(f[4], f[2], f[3]))
    ELSE IF f[1] = "mon" /\ ValidYMD(f[4], f[3], f[2]) THEN DateObj(ToOrdinal(f[4], f[3], f[2]))
    ELSE IF f[1] = "iso" /\ ValidYMD(f[2], f[3], f[4]) THEN DateObj(ToOrdinal(f[2], f[3], f[4]))
    ELSE NoDate

\* ECBSource._parse_csv: the loop over the rows of the DictReader (lines
\* 82-106); str.strip() of None raises AttributeError, which the except
\* clause of the loop does not catch
RECURSIVE ECBParseRows(_, _, _, _)
ECBParseRows(rates, rows, start_year, end_year) ==
    IF rows = <<>> THEN Got(rates)
    ELSE LET row == Head(rows)
             rest == Tail(rows)
             date_obj == ECBParseDate(row.Date)
         IN  IF row.Date[1] = "None" THEN Raise("AttributeError")
             ELSE IF row.Date[1] = "empty" THEN ECBParseRows(rates, rest, start_year, end_year)
             ELSE IF date_obj[1] = "none" THEN ECBParseRows(rates, rest, start_year, end_year)
             ELSE IF ~(start_year <= YearOfStr(Isoformat(date_obj[2]))
                       /\ YearOfStr(Isoformat(date_obj[2])) <= end_year)
                  THEN ECBParseRows(rates, rest, start_year, end_year)
             ELSE IF row.USD[1] = "None" THEN Raise("AttributeError")
             ELSE IF row.USD[1] = "empty" THEN ECBParseRows(rates, rest, start_year, end_year)
             ELSE IF ~IsNumeric(row.USD) THEN ECBParseRows(rates, rest, start_year, end_year)
             ELSE ECBParseRows(
                      Update(rates,
                             [d \in {Isoformat(date_obj[2])} |->
                                 [rate |-> Float(row.USD),
                                  direction |-> QuoteDirection["EUR"]]]),
                      rest, start_year, end_year)

\* the one request of ECBSource.fetch_rates with _parse_csv on what it got
ECBFetchBundle(remote, start_year, end_year) ==
    IF remote[1] = "fail" THEN Failed
    ELSE ECBParseRows(EmptyMap, remote[2], start_year, end_year)

\* the cells of a DataFrame: NaN/NaT, a pandas Timestamp, a str (a date text
\* or Text), a number (Num)
NaN == <<"nan">>
Ts(y, m, d) == <<"ts", ToOrdinal(y, m, d)>>

\* 'date' in col_str.lower(), on the header names of the model
NameHasDate(name) == name \in {"Date", "DATE", "Updated"}

\* 'a$1=usd' in col_str.lower() or 'aud/usd' in col_str.lower()
NameHasUsd(name) == name \in {"A$1=USD", "AUD/USD"}

\* the loop over df.columns (lines 90-95): <<date_col, usd_col>>, 0 for None
RECURSIVE MatchColumns(_, _, _, _)
MatchColumns(columns, i, date_col, usd_col) ==
    IF i > Len(columns) THEN <<date_col, usd_col>>
    ELSE IF NameHasDate(columns[i].name) \/ columns[i].dtype = "datetime64[ns]"
         THEN MatchColumns(columns, i + 1, i, usd_col)
         ELSE IF NameHasUsd(columns[i].name)
              THEN MatchColumns(columns, i + 1, date_col, i)
              ELSE MatchColumns(columns, i + 1, date_col, usd_col)

\* lines 87-104: the columns _fetch_range reads, or the ValueError it raises
ResolveColumns(columns) ==
    LET named == MatchColumns(columns, 1, 0, 0)
    IN  IF named[1] = 0 \/ named[2] = 0
        THEN IF Len(columns) >= 2 THEN <<"ok", <<1, 2>> >> ELSE Raise("ValueError")
        ELSE <<"ok", named>>

\* the date object of a date cell that is not NaN (lines 113-118), NoDate
\* when strptime raises ValueError; pd.to_datetime of a small number is a
\* nanosecond count from 1970-01-01
RBADateOf(cell) ==
    IF cell[1] = "mon"
    THEN IF ValidYMD(cell[4], cell[3], cell[2])
         THEN DateObj(ToOrdinal(cell[4], cell[3], cell[2])) ELSE NoDate
    ELSE IF cell[1] = "ts" THEN DateObj(cell[2])
    ELSE IF cell[1] = "num" THEN DateObj(ToOrdinal(1970, 1, 1))
    ELSE NoDate

\* the loop over df.iterrows() (lines 106-139)
RECURSIVE RBAParseRows(_, _, _, _, _, _)
RBAParseRows(rates, rows, date_col, usd_col, start_year, end_year) ==
    IF rows = <<>> THEN rates
    ELSE LET row == Head(rows)
             rest == Tail(rows)
             date_obj == RBADateOf(row[date_col])
         IN  IF row[date_col][1] = "nan"
             THEN RBAParseRows(rates, rest, date_col, usd_col, start_year, end_year)
             ELSE IF date_obj[1] = "none"
             THEN RBAParseRows(rates, rest, date_col, usd_col, start_year, end_year)
             ELSE IF ~(start_year <= YearOfStr(Isoformat(date_obj[2]))
                       /\ YearOfStr(Isoformat(date_obj[2])) <= end_year)
             THEN RBAParseRows(rates, rest, date_col, usd_col, start_year, end_year)
             ELSE IF row[usd_col][1] = "nan"
             THEN RBAParseRows(rates, rest, date_col, usd_col, start_year, end_year)
             ELSE IF ~IsNumeric(row[usd_col])
             THEN RBAParseRows(rates, rest, date_col, usd_col, start_year, end_year)
             ELSE RBAParseRows(
                      Update(rates,
                             [d \in {Isoformat(date_obj[2])} |->
                                 [rate |-> Float(row[usd_col]),
                                  direction |-> QuoteDirection["AUD"]]]),
                      rest, date_col, usd_col, start_year, end_year)

\* RBASource._fetch_range on what the request and read_excel gave
RBAFetchRange(remote, start_year, end_year) ==
    IF remote[1] = "fail" THEN Failed
    ELSE LET cols == ResolveColumns(remote[2].columns)
         IN  IF cols[1] = "fail" THEN cols
             ELSE Got(RBAParseRows(EmptyMap, remote[2].rows, cols[2][1], cols[2][2],
                                   start_year, end_year))

(***************************************************************************)
(* The third specification: one function of the ingestion scripts applied  *)
(* to one input drawn from a bounded set.                                  *)
(***************************************************************************)
\* the ledgers handed to save_rates_by_year and to the merges: three dates,
\* two of them in one year, each with one of two rates
FunDates == {20121230, 20121231, 20130102}

FunLedgers ==
    UNION { [D -> [rate : IngestRates, direction : {"USD_TO_PLN"}]] :
            D \in SUBSET FunDates }

\* the year files a currency directory holds before the call: those an
\* earlier call wrote
FunFiles == { save_rates_by_year(EmptyMap, l, YearsOf(l)) : l \in FunLedgers }

SaveInputs == [files : FunFiles, rates : FunLedgers]

\* the most data rows a remote file of the model has
MaxRows == 2

RECURSIVE SeqsUpTo(_, _)
SeqsUpTo(S, n) ==
    IF n = 0 THEN {<<>>}
    ELSE LET shorter == SeqsUpTo(S, n - 1)
         IN  shorter \cup {Append(q, x) : q \in {r \in shorter : Len(r) = n - 1}, x \in S}

\* the calls fetch_rates(start_year, end_year): the one main() makes, and one
\* for the last year alone
CallRanges == {<<START_YEAR, CurrentYear>>, <<CurrentYear, CurrentYear>>}

\* the lines of an NBP archive file after its header line: the row of full
\* names, a good row, a row of a year nobody asked for, a zero rate, 30
\* February, a rate that is no number, a row cut short, a blank line
NBPLines ==
    { <<Text, Text, Text>>,
      <<Num(20130102), Num(1000), Num(30660)>>,
      <<Num(20130103), Num(1000), Num(30950)>>,
      <<Num(20090105), Num(1000), Num(29000)>>,
      <<Num(20130102), Num(1000), Num(0)>>,
      <<Num(20130230), Num(1000), Num(31000)>>,
      <<Num(20130103), Num(1000), Text>>,
      <<Num(20130103), Num(1000)>>,
      <<>> }

NBPHeaderLine == <<Text, Text, Text>>

NBPFiles == { Got(<<NBPHeaderLine>> \o rows) : rows \in SeqsUpTo(NBPLines, MaxRows) }

\* the file of 2012 when the call reaches back to it
NBPEarlierFiles ==
    { Failed,
      Got(<<NBPHeaderLine>>),
      Got(<<NBPHeaderLine, <<Num(20121231), Num(1000), Num(30996)>> >>) }

NBPInputs ==
    UNION { { [start_year |-> r[1], end_year |-> r[2],
               remote |-> [y \in NBPYears(r[1], r[2]) |->
                              IF y = CurrentYear THEN f ELSE e]] :
              f \in NBPFiles, e \in NBPEarlierFiles } :
            r \in CallRanges }

\* the rows of eurofxref-hist.csv as the DictReader yields them: good rows in
\* three date formats, a row of a year nobody asked for, a negative rate,
\* N/A, an empty rate, a date that is none, an empty date, and a row cut
\* short after its date
ECBRows ==
    { [Date |-> Iso(2012, 12, 31), USD |-> Num(13194)],
      [Date |-> Slash(2, 1, 2013), USD |-> Num(13200)],
      [Date |-> Slash(1, 13, 2013), USD |-> Num(-15000)],
      [Date |-> DMonY(5, 1, 2009), USD |-> Num(11000)],
      [Date |-> Iso(2013, 1, 2), USD |-> Text],
      [Date |-> Iso(2013, 1, 2), USD |-> Empty],
      [Date |-> Text, USD |-> Num(13200)],
      [Date |-> Empty, USD |-> Num(13200)],
      [Date |-> Iso(2012, 12, 31), USD |-> None] }

ECBInputs ==
    { [start_year |-> r[1], end_year |-> r[2], remote |-> rem] :
        r \in CallRanges,
        rem \in {Failed} \cup {Got(rows) : rows \in SeqsUpTo(ECBRows, MaxRows)} }

\* ECBSource.fetch_rates(start_year, end_year) over the remote bundle
ApplyECB ==
    /\ fn = "ecb"
    /\ output = NotApplied
    /\ output' =
          [returned |->
              ECBFetchRates(<<ECBFetchBundle(input.remote, input.start_year,
                                            input.end_year)>>)]
    /\ UNCHANGED <<fn, input>>

\* a stored ledger and two record sets merged into it
MergeInputs == [files : FunFiles, a : FunLedgers, b : FunLedgers]

\* the two record sets merged in either order: by two passes of main() over
\* the stored files (lines 128-160), and by all_rates.update() in the
\* accumulation of one source (nbp.py:56, rba.py:65)
ApplyMerge ==
    /\ fn = "merge"
    /\ output = NotApplied
    /\ output' =
          [ab |-> StoredAfterPass(StoredAfterPass(input.files, input.a), input.b),
           ba |-> StoredAfterPass(StoredAfterPass(input.files, input.b), input.a),
           acc_ab |-> Update(Update(load_existing_rates(input.files), input.a), input.b),
           acc_ba |-> Update(Update(load_existing_rates(input.files), input.b), input.a)]
    /\ UNCHANGED <<fn, input>>

Column(name, dtype) == [name |-> name, dtype |-> dtype]

\* the column layouts of the workbooks: the headers named as the code
\* expects, the series header the RBA publishes (dates read as Timestamps),
\* headers that match nothing, the named columns in reverse order, a third
\* column of Timestamps after the named ones, and a single column
RBALayouts ==
    { <<Column("Date", "object"), Column("A$1=USD", "float64")>>,
      <<Column("Series ID", "datetime64[ns]"), Column("FXRUSD", "float64")>>,
      <<Column("Units", "object"), Column("FXRUSD", "object")>>,
      <<Column("AUD/USD", "object"), Column("DATE", "object")>>,
      <<Column("Date", "object"), Column("A$1=USD", "float64"),
        Column("Published", "datetime64[ns]")>>,
      <<Column("Date", "object")>> }

\* the date cell and the rate cell of a data row: two good rows, a row of a
\* year nobody asked for, a zero rate, a missing rate, a missing date, a date
\* text that is none, a rate that is no number
RBACells ==
    { <<DMonY(2, 1, 2013), Num(10500)>>,
      <<Ts(2012, 12, 31), Num(10380)>>,
      <<DMonY(5, 1, 2009), Num(7000)>>,
      <<Ts(2013, 1, 2), Num(0)>>,
      <<DMonY(2, 1, 2013), NaN>>,
      <<NaN, Num(10500)>>,
      <<Text, Num(10500)>>,
      <<DMonY(3, 1, 2013), Text>> }

\* a cell fits a column of its dtype
Fits(cell, dtype) ==
    CASE dtype = "datetime64[ns]" -> cell[1] \in {"ts", "nan"}
      [] dtype = "float64" -> cell[1] \in {"num", "nan"}
      [] OTHER -> TRUE

\* the row of a layout that carries a date cell and a rate cell: under the
\* headers that name them when the layout has such headers, else in the first
\* two columns; a third column holds the day of publication
RowOf(layout, cells) ==
    [i \in DOMAIN layout |->
        IF i = 3 THEN Ts(2013, 1, 4)
        ELSE IF NameHasUsd(layout[1].name) THEN cells[3 - i]
        ELSE cells[i]]

RBAFrames ==
    UNION { { [columns |-> layout,
               rows |-> [k \in DOMAIN q |-> RowOf(layout, q[k])]] :
              q \in SeqsUpTo({c \in RBACells :
                                 \A i \in DOMAIN layout :
                                     Fits(RowOf(layout, c)[i], layout[i].dtype)},
                             MaxRows) } :
            layout \in RBALayouts }

RBAInputs ==
    { [start_year |-> r[1], end_year |-> r[2],
       remote |-> [i \in RBARanges(r[1], r[2]) |-> rem]] :
        r \in CallRanges,
        rem \in {Failed} \cup {Got(frame) : frame \in RBAFrames} }

\* RBASource.fetch_rates(start_year, end_year) over the remote workbooks
ApplyRBA ==
    /\ fn = "rba"
    /\ output = NotApplied
    /\ output' =
          [returned |->
              RBAFetchRates([i \in DOMAIN input.remote |->
                                RBAFetchRange(input.remote[i], input.start_year,
                                              input.end_year)],
                            input.start_year, input.end_year),
           ranges |->
              [i \in DOMAIN input.remote |->
                  RBAFetchRange(input.remote[i], input.start_year, input.end_year)],
           columns |->
              [i \in {j \in DOMAIN input.remote : input.remote[j][1] = "ok"} |->
                  ResolveColumns(input.remote[i][2].columns)]]
    /\ UNCHANGED <<fn, input>>

\* NBPSource.fetch_rates(start_year, end_year) over the remote files
ApplyNBP ==
    /\ fn = "nbp"
    /\ output = NotApplied
    /\ output' =
          [returned |->
              NBPFetchRates([y \in DOMAIN input.remote |-> NBPFetchYear(input.remote[y])],
                            input.start_year, input.end_year)]
    /\ UNCHANGED <<fn, input>>

\* save_rates_by_year(currency, rates, new_dates) called on a directory, and
\* called a second time with the same rates
ApplySave ==
    /\ fn = "save"
    /\ output = NotApplied
    /\ output' =
          LET once == save_rates_by_year(input.files, input.rates, YearsOf(input.rates))
          IN  [once |-> once,
               twice |-> save_rates_by_year(once, input.rates, YearsOf(input.rates))]
    /\ UNCHANGED <<fn, input>>

FunInputs(f) ==
    CASE f = "save" -> SaveInputs
      [] f = "nbp" -> NBPInputs
      [] f = "ecb" -> ECBInputs
      [] f = "rba" -> RBAInputs
      [] f = "merge" -> MergeInputs

InitFun ==
    /\ fn \in {"save", "nbp", "ecb", "rba", "merge"}
    /\ input \in FunInputs(fn)
    /\ output = NotApplied
    /\ rates_dir = EmptyMap
    /\ exchange_rates = EmptyMap
    /\ call = NoCall
    /\ result = NoResult
    /\ store = InitStore
    /\ idx = 1
    /\ summary = [c \in Currencies |-> NoEntry]
    /\ changes_made = FALSE
    /\ exit_code = NotReturned
    /\ refetch = "other"
    /\ remote_failed = FALSE

NextFun ==
    \/ (ApplySave /\ UNCHANGED <<convVars, ingestVars>>)
    \/ (ApplyNBP /\ UNCHANGED <<convVars, ingestVars>>)
    \/ (ApplyECB /\ UNCHANGED <<convVars, ingestVars>>)
    \/ (ApplyRBA /\ UNCHANGED <<convVars, ingestVars>>)
    \/ (ApplyMerge /\ UNCHANGED <<convVars, ingestVars>>)

SpecFun == InitFun /\ [][NextFun]_vars

(***************************************************************************)
(* Properties of the ingestion runs (Spec)                                 *)
(***************************************************************************)
\* the ledger stored for a currency
Ledger(c) == load_existing_rates(store[c])
LedgerAfter(c) == load_existing_rates(store'[c])

\* the source of the pass that has just been made
LastSource == SourceOrder[idx - 1]

IsErrorEntry(e) == "error" \in DOMAIN e
IsOkEntry(e) == "new" \in DOMAIN e

\* C1 (existing wins, append-only): a date that has a stored rate keeps that
\* rate and direction through every step of every run, whatever the refetch
\* produced for it.
C1_ExistingWins ==
    [][\A c \in Currencies : \A d \in DOMAIN Ledger(c) :
          d \in DOMAIN LedgerAfter(c) /\ LedgerAfter(c)[d] = Ledger(c)[d]]_vars

\* C2 (idempotent merge): a pass whose fetch returns only records that are
\* stored already (any subset of them, the empty one included) leaves every
\* year file as it was and reports no new date.
C2_IdempotentMerge ==
    [][(idx \in DOMAIN SourceOrder /\ idx' = idx + 1 /\ refetch' \in {"stored", "empty"})
       => /\ store' = store
          /\ summary'[SourceOrder[idx]] = OkEntry(SourceOrder[idx], {})
          /\ changes_made' = changes_made]_vars

\* a pass has refetched stored records of a non-empty ledger and left it alone
C2_Witness ==
    /\ idx > 1
    /\ refetch = "stored"
    /\ Ledger(LastSource) # EmptyMap
    /\ summary[LastSource] = OkEntry(LastSource, {})

C10_RemoteFailureReported ==
    (idx > 1 /\ remote_failed) => IsErrorEntry(summary[LastSource])

(***************************************************************************)
(* Properties of convert() (SpecConvert)                                   *)
(***************************************************************************)
Called == call # NoCall
AskedCurrency == Upper(call[2])
AskedDate == call[3]

\* the currency asked for has a ledger with rates
HasData ==
    /\ AskedCurrency \in DOMAIN exchange_rates
    /\ exchange_rates[AskedCurrency] # EmptyMap

AskedRates == exchange_rates[AskedCurrency]

IsSuccess == "status" \in DOMAIN result /\ result.status = "success"
IsError == "status" \in DOMAIN result /\ result.status = "error"
\* the error of a resolution that found no rate
IsRateNotFound == IsError /\ "requested_date" \in DOMAIN result

\* the dates of the look-back of the claim: t-30 <= d < t
Window == {d \in DOMAIN AskedRates : AskedDate - 30 <= d /\ d < AskedDate}

\* C3 (bounded fallback): without a record for the date asked, the result
\* uses the record of the greatest date among the 30 days before it, and is
\* the rate-not-found error when none of them has a record.
C3_BoundedFallback ==
    (Called /\ HasData /\ AskedDate \notin DOMAIN AskedRates)
    => IF Window # {}
       THEN /\ IsSuccess
            /\ result.rate = AskedRates[SetMax(Window)]
            /\ result.rate_date = Isoformat(SetMax(Window))
       ELSE IsRateNotFound

\* C4 (exact-date priority): with a record for the date asked, the result
\* is that record and its rate_date is the requested date, whatever earlier
\* dates have records.
C4_ExactDatePriority ==
    (Called /\ HasData /\ AskedDate \in DOMAIN AskedRates)
    => /\ IsSuccess
       /\ result.rate = AskedRates[AskedDate]
       /\ result.rate_date = Isoformat(AskedDate)
       /\ result.rate_date = result.requested_date

\* an exact hit while an earlier date in reach of the look-back has another rate
C4_Witness ==
    /\ Called /\ HasData /\ AskedDate \in DOMAIN AskedRates
    /\ \E d \in Window : AskedRates[d] # AskedRates[AskedDate]
    /\ IsSuccess /\ result.rate_date = result.requested_date

\* C5 (backward-only window): a date before the earliest date of the ledger
\* gives an error result with earliest_date the ledger's minimum and without
\* latest_date, never a success.
C5_TooEarly ==
    (Called /\ HasData /\ AskedDate < SetMin(DOMAIN AskedRates))
    => /\ IsError
       /\ "earliest_date" \in DOMAIN result
       /\ result.earliest_date = Isoformat(SetMin(DOMAIN AskedRates))
       /\ "latest_date" \notin DOMAIN result

\* C6 (only two failure reasons): when no rate is resolved for a currency
\* with data, the date asked lies before the earliest date or more than 30
\* days after the latest, and the latest-date error is given only after the
\* latest date.
C6_TwoFailureReasons ==
    (Called /\ HasData /\ ~IsSuccess)
    => /\ \/ AskedDate < SetMin(DOMAIN AskedRates)
          \/ AskedDate > SetMax(DOMAIN AskedRates) + 30
       /\ "latest_date" \in DOMAIN result => AskedDate > SetMax(DOMAIN AskedRates)

\* C7 (convert is total): every call returns a result whose status is
\* success or error; no exception leaves convert().
C7_NeverRaises ==
    Called => ("status" \in DOMAIN result /\ result.status \in {"success", "error"})

\* the bank directories that are loaded under a currency code
DirsOf(currency) == {n \in DOMAIN rates_dir : CurrencyOfDir(n) = currency}

\* no row of the directory's files can be loaded
NoRowLoaded(n) == LoadFiles(EmptyMap, rates_dir[n]) = EmptyMap

IsUnknownCurrency ==
    /\ IsError
    /\ "available_currencies" \in DOMAIN result
    /\ result.available_currencies =
          SortedCodes({CurrencyOfDir(n) : n \in DOMAIN rates_dir})
    /\ result.requested_currency = call[2]

IsNoData ==
    /\ IsError
    /\ DOMAIN result = {"status", "error", "currency"}
    /\ result.error = <<"no rate data", AskedCurrency, "rates/", BankCodeOf(AskedCurrency)>>

\* C8 (unknown against empty): a currency no bank directory is loaded under
\* gives the unknown-currency error with the available codes; a currency
\* whose directories exist and load no row gives the no-data error naming
\* rates/<bank code>/; neither is a success or a rate-not-found error.
C8_UnknownVsEmpty ==
    Called =>
       /\ DirsOf(AskedCurrency) = {} => (IsUnknownCurrency /\ ~IsRateNotFound)
       /\ (DirsOf(AskedCurrency) # {} /\ \A n \in DirsOf(AskedCurrency) : NoRowLoaded(n))
          => (IsNoData /\ ~IsUnknownCurrency)

\* the no-data error for a directory whose files hold rows, none of them loadable
C8_Witness ==
    /\ Called
    /\ \E n \in DirsOf(AskedCurrency) : rates_dir[n] # <<>>
    /\ \A n \in DirsOf(AskedCurrency) : NoRowLoaded(n)
    /\ IsNoData
    /\ \E other \in DOMAIN exchange_rates : exchange_rates[other] # EmptyMap

\* C18 (a run without new dates leaves storage untouched): in a pass of an
\* ingestion run the year files of the source are rewritten only if the fetch
\* returned a date not stored yet; a pass that reports 0 new dates creates,
\* rewrites and deletes no file, also when the fetched rates differ from the
\* stored ones, and does not set changes_made.
C18_NoNewDatesUntouched ==
    [][(idx \in DOMAIN SourceOrder /\ idx' = idx + 1) =>
          LET c == SourceOrder[idx] IN
          /\ (store'[c] # store[c]) =>
                \/ (IsOkEntry(summary'[c]) /\ summary'[c].new > 0)
                \/ summary'[c] = ErrorEntry("save")
          /\ (IsOkEntry(summary'[c]) /\ summary'[c].new = 0) =>
                /\ store' = store
                /\ changes_made' = changes_made]_vars

\* a pass has reported 0 new dates although the fetch brought, for stored
\* dates, records that differ from the stored ones
C18_Witness ==
    /\ idx > 1
    /\ refetch = "other"
    /\ IsOkEntry(summary[LastSource])
    /\ summary[LastSource].new = 0
    /\ Ledger(LastSource) # EmptyMap
    /\ changes_made = FALSE

(***************************************************************************)
(* Properties of the functions (SpecFun)                                   *)
(***************************************************************************)
Applied == "none" \notin DOMAIN output

\* the dates of a ledger that lie in a year
DatesIn(rates, y) == {d \in DOMAIN rates : YearOf(d) = y}

\* C11 (persisted partitions): after save_rates_by_year, every year file
\* written starts with the header date,rate,direction, holds exactly the
\* ledger's records whose date lies in that year (each date once, every record
\* in exactly one file), has its rows in strictly ascending date order, and is
\* the same after the same ledger is saved a second time.
C11_PartitionWellFormed ==
    (fn = "save" /\ Applied) =>
        LET rates == input.rates
            files == output.once
        IN  /\ \A y \in YearsOf(rates) :
                  /\ y \in DOMAIN files
                  /\ Len(files[y]) = 1 + Cardinality(DatesIn(rates, y))
                  /\ files[y][1] = Header
                  /\ \A i \in 2..Len(files[y]) :
                        LET row == files[y][i]
                        IN  /\ row[1] \in DatesIn(rates, y)
                            /\ row = <<row[1], Num(rates[row[1]].rate),
                                       rates[row[1]].direction>>
                  /\ \A i, j \in 2..Len(files[y]) :
                        i < j => files[y][i][1] < files[y][j][1]
            /\ \A d \in DOMAIN rates :
                  Cardinality({y \in YearsOf(rates) :
                                 \E i \in 2..Len(files[y]) : files[y][i][1] = d}) = 1
            /\ output.twice = output.once

\* a ledger with two dates of one year saved over files that hold another
\* rate for one of them
C11_Witness ==
    /\ fn = "save" /\ Applied
    /\ Cardinality(DatesIn(input.rates, 2012)) = 2
    /\ 2012 \in DOMAIN input.files
    /\ input.files[2012] # output.once[2012]
    /\ Len(output.once[2012]) = 3

\* the records a source's fetch_rates returned
Emitted == output.returned[2]

IsParser == fn \in {"nbp", "ecb", "rba"}

\* C12 (year filter): every record a parser's fetch_rates(start_year,
\* end_year) returns has a date whose year lies in start_year..end_year,
\* whatever dates the rows of the remote files carry, and its key is a
\* canonical YYYY-MM-DD date.
C12_YearFilter ==
    (IsParser /\ Applied /\ output.returned[1] = "ok") =>
        \A d \in DOMAIN Emitted :
            /\ IsDateStr(d)
            /\ YearOf(d) >= input.start_year
            /\ YearOf(d) <= input.end_year

\* C13 (rate > 0): every record a parser's fetch_rates returns has a rate that
\* is a positive number; a row whose rate field reads as zero or as a negative
\* number is not stored.
C13_PositiveRate ==
    (IsParser /\ Applied /\ output.returned[1] = "ok") =>
        \A d \in DOMAIN Emitted : Emitted[d].rate > 0

\* the rows of the remote files the delimited-text parser (NBP) and the
\* bundle parser (ECB) were given, without the header line
RowsGiven ==
    IF fn = "nbp"
    THEN UNION { {input.remote[y][2][i] : i \in 2..Len(input.remote[y][2])} :
                 y \in {z \in DOMAIN input.remote : input.remote[z][1] = "ok"} }
    ELSE {input.remote[2][i] : i \in 1..Len(input.remote[2])}

\* a row with a date that parses, inside the years asked for where the parser
\* filters by year, and a rate field that is a number: <<date, rate>> of such
\* a row, and <<>> of a malformed one
WellFormed(row) ==
    IF fn = "nbp"
    THEN IF /\ Len(row) >= 3
            /\ row[1][1] = "num" /\ IsDateStr(row[1][2])
            /\ row[3][1] = "num"
         THEN <<row[1][2], row[3][2]>>
         ELSE <<>>
    ELSE IF /\ ECBParseDate(row.Date)[1] = "date"
            /\ row.USD[1] = "num"
         THEN LET d == Isoformat(ECBParseDate(row.Date)[2])
              IN  IF input.start_year <= YearOf(d) /\ YearOf(d) <= input.end_year
                  THEN <<d, row.USD[2]>>
                  ELSE <<>>
         ELSE <<>>

GoodRows == {WellFormed(row) : row \in RowsGiven} \ {<<>>}

AllAnswered ==
    IF fn = "nbp" THEN \A y \in DOMAIN input.remote : input.remote[y][1] = "ok"
    ELSE input.remote[1] = "ok"

\* C14 (malformed-row tolerance): for the NBP and ECB parsers, a batch in
\* which some rows have an unparseable date, a rate that is no number or a
\* missing rate yields exactly the records of the well-formed rows, one per
\* well-formed date, and the parse raises no failure.
C14_MalformedRowTolerance ==
    (fn \in {"nbp", "ecb"} /\ Applied /\ AllAnswered) =>
        /\ output.returned[1] = "ok"
        /\ DOMAIN Emitted = {g[1] : g \in GoodRows}
        /\ \A d \in DOMAIN Emitted : <<d, Emitted[d].rate>> \in GoodRows

\* C15 (merge is commutative): merging two record sets A and B into a ledger
\* gives the same ledger in either order, also when A and B hold the same date
\* with different rates; for the merge into the store and for the
\* accumulation of fetch results inside one source.
C15_MergeCommutative ==
    (fn = "merge" /\ Applied) =>
        /\ output.ab = output.ba
        /\ output.acc_ab = output.acc_ba

\* the columns of a workbook whose header names a date, and those whose
\* header names the rate
DateNamed(columns) == {i \in DOMAIN columns : columns[i].name \in {"Date", "DATE", "Updated"}}
UsdNamed(columns) == {i \in DOMAIN columns : columns[i].name \in {"A$1=USD", "AUD/USD"}}

\* C16 (spreadsheet column resolution): when a date header and a rate header
\* both match by name, the date and rate columns are columns so named; the
\* first two columns are used only when name matching fails for one of the
\* two; when neither way resolves both columns the range fetch fails with an
\* error and emits no records.
C16_ColumnResolution ==
    (fn = "rba" /\ Applied) =>
        \A i \in DOMAIN output.columns :
            LET columns == input.remote[i][2].columns
                resolved == output.columns[i]
                named == DateNamed(columns) # {} /\ UsdNamed(columns) # {}
            IN  /\ named =>
                      /\ resolved[1] = "ok"
                      /\ resolved[2][1] \in DateNamed(columns)
                      /\ resolved[2][2] \in UsdNamed(columns)
                /\ (~named /\ Len(columns) >= 2) => resolved = <<"ok", <<1, 2>> >>
                /\ (~named /\ Len(columns) < 2) =>
                      /\ resolved[1] = "fail"
                      /\ output.ranges[i][1] = "fail"
                      /\ Emitted = EmptyMap

(***************************************************************************)
(* Further properties of convert() (SpecConvert)                           *)
(***************************************************************************)
\* amount * rate (in 1/10000) rounded to cents, halves to the even cent
RoundHalfEven(p) ==
    IF p % 100 > 50 \/ (p % 100 = 50 /\ (p \div 100) % 2 = 1)
    THEN (p \div 100) + 1 ELSE p \div 100

\* amount * rate (in 1/10000) rounded to cents, halves up
RoundHalfUp(p) == IF p % 100 >= 50 THEN (p \div 100) + 1 ELSE p \div 100

RoundBy(rule, p) == IF rule = "half-even" THEN RoundHalfEven(p) ELSE RoundHalfUp(p)

\* C17 (rounding): on success converted_amount is amount_usd * rate rounded
\* to 2 decimal places under one fixed rule (halves to even, or halves up: the
\* same rule for every amount and rate of the archive), 100 at the rate
\* 4.0015 gives 400.15, and the rate and amount_usd returned are the inputs,
\* not rounded.
C17_Rounding ==
    (Called /\ IsSuccess) =>
        /\ \E rule \in {"half-even", "half-up"} :
              \A c \in DOMAIN exchange_rates : \A d \in DOMAIN exchange_rates[c] :
                 \A a \in Amounts :
                    Convert(exchange_rates, a, c, d).converted_amount
                        = RoundBy(rule, a * exchange_rates[c][d])
        /\ (call[1] = 100 /\ result.rate = 40015) => result.converted_amount = 40015
        /\ result.amount_usd = call[1]
        /\ result.rate = exchange_rates[result.currency][StrpDate(result.rate_date)]

\* the direction tag with base and quote exchanged
FlipTag(tag) ==
    CASE tag = "USD_TO_PLN" -> "PLN_TO_USD"
      [] tag = "EUR_TO_USD" -> "USD_TO_EUR"
      [] OTHER -> tag

\* the archive with the same dates and rate numbers and every direction tag
\* exchanged for the opposite one
Retagged(disk) ==
    [b \in DOMAIN disk |->
        [f \in DOMAIN disk[b] |->
            [i \in DOMAIN disk[b][f] |->
                LET row == disk[b][f][i]
                IN  IF i > 1 /\ Len(row) >= 3 THEN <<row[1], row[2], FlipTag(row[3])>>
                    ELSE row]]]

\* C19 (conversion ignores the quote direction): convert called on the archive
\* with every direction tag exchanged (USD_TO_X for X_TO_USD and back), loaded
\* in the same order, returns what it returned on the archive as it is; and
\* on success converted_amount is the cent nearest to amount_usd multiplied
\* by the rate stored for rate_date.
C19_DirectionIgnored ==
    Called =>
        /\ \A order \in Orders(DOMAIN rates_dir) :
              Construct(rates_dir, order) = exchange_rates =>
                 Convert(Construct(Retagged(rates_dir), order), call[1], call[2], call[3])
                     = result
        /\ IsSuccess =>
              LET stored == exchange_rates[result.currency][StrpDate(result.rate_date)]
              IN  /\ result.rate = stored
                  /\ 100 * result.converted_amount - call[1] * stored \in (-50)..50

\* a rate quoted as EUR_TO_USD has been used for a conversion
C19_Witness ==
    /\ Called /\ IsSuccess
    /\ \E b \in DOMAIN rates_dir : \E f \in DOMAIN rates_dir[b] :
          \E i \in 2..Len(rates_dir[b][f]) :
             LET row == rates_dir[b][f][i]
             IN  /\ Len(row) >= 3
                 /\ row[3] = "EUR_TO_USD"
                 /\ row[1] = result.rate_date
                 /\ row[2] = Num(result.rate)
                 /\ Retagged(rates_dir) # rates_dir

\* the position of a code in string order
Rank(code) == CHOOSE i \in DOMAIN CodeOrder : CodeOrder[i] = code

\* C20 (available currencies): the available_currencies list of an
\* unknown-currency error is sorted ascending and holds exactly the
\* currencies get_available_currencies reports, each of which has a loaded
\* rate and converts on some date; and for each reported currency
\* earliest_date is the least date of its ledger, latest_date the greatest
\* and total_days the number of its dates.
C20_AvailableCurrencies ==
    LET listed == get_available_currencies(exchange_rates) IN
    /\ (Called /\ IsError /\ "available_currencies" \in DOMAIN result) =>
          LET available == result.available_currencies
          IN  /\ \A i, j \in DOMAIN available :
                    i < j => Rank(available[i]) < Rank(available[j])
              /\ {available[i] : i \in DOMAIN available} = DOMAIN listed
              /\ \A i \in DOMAIN available :
                    /\ available[i] \in DOMAIN exchange_rates
                    /\ \E d \in DOMAIN exchange_rates[available[i]] :
                          Convert(exchange_rates, 1, available[i], d).status = "success"
    /\ \A c \in DOMAIN listed :
          /\ \E d \in DOMAIN exchange_rates[c] : listed[c].earliest_date = Isoformat(d)
          /\ \E d \in DOMAIN exchange_rates[c] : listed[c].latest_date = Isoformat(d)
          /\ \A d \in DOMAIN exchange_rates[c] :
                /\ listed[c].earliest_date <= Isoformat(d)
                /\ Isoformat(d) <= listed[c].latest_date
          /\ listed[c].total_days = Cardinality(DOMAIN exchange_rates[c])
====
